---- MODULE Spec2Model ----
(***************************************************************************)
(* Migration Guardian (src/hooks/migration_guardian): the model change     *)
(* detector with its snapshot cache, the dependency detector's migration   *)
(* order, the safety analyzer, the migration generator and the hook's run  *)
(* handler.                                                                *)
(*                                                                         *)
(* Python values are modelled as follows.  A dict is a record; a key the   *)
(* code may leave out is a field the record may lack, and d.get(k, v) is   *)
(* a test of DOMAIN.  The empty dict {} is the empty function <<>>.  None  *)
(* and the values of keyword arguments are strings holding their source    *)
(* text.  A source file is modelled by its syntax tree: the list of its    *)
(* class statements, each with the statements of its body.                 *)
(***************************************************************************)
EXTENDS Integers, Sequences, FiniteSets, TLC

VARIABLES
    cache,      \* .migration_guardian_cache: file path -> cached content
    last,       \* the latest detect_changes call or hook run, with its result
    prev,       \* the detect_changes call before the latest one
    reports,    \* migration_guardian_reports: the files written, oldest first
    config,     \* the configuration load_config gives the hook
    gen,        \* a call of MigrationGenerator.generate and what it did
    graph,      \* _calculate_migration_order: the dependency graph given
    visited,    \* _calculate_migration_order: the set visited
    order,      \* _calculate_migration_order: the list order
    stack,      \* the active calls of visit(), innermost last
    pending,    \* keys of graph the loop "for module in graph" has yet to take
    tpc,        \* position in _calculate_migration_order
    invocations,\* overlapping calls of detect_changes: position and locals
    defaults    \* the module-level dict DEFAULT_CONFIG of utils/config.py

vars ==
    <<cache, last, prev, reports, config, gen, graph, visited, order, stack, pending, tpc,
      invocations, defaults>>

detectVars == <<cache, last, prev, reports, config>>
genVars == <<gen>>
topoVars == <<graph, visited, order, stack, pending, tpc>>
sideVars == <<invocations, defaults>>

None == "None"
EmptyDict == <<>>

\* Python truthiness of a dict
DictTruthy(d) == DOMAIN d # {}

\* Python truthiness of an extracted default value (None, 0, False and ''
\* are falsy)
Truthy(v) == v \notin {None, "0", "False", "''"}

(***************************************************************************)
(* Sequence helpers                                                        *)
(***************************************************************************)
RECURSIVE Ascending(_)
Ascending(S) ==
    IF S = {} THEN <<>>
    ELSE LET m == CHOOSE x \in S : \A y \in S : x <= y
         IN <<m>> \o Ascending(S \ {m})

RECURSIVE SetToSeq(_)
SetToSeq(S) ==
    IF S = {} THEN <<>>
    ELSE LET x == CHOOSE y \in S : TRUE IN <<x>> \o SetToSeq(S \ {x})

RECURSIVE Flatten(_)
Flatten(ss) == IF ss = <<>> THEN <<>> ELSE Head(ss) \o Flatten(Tail(ss))

Range(s) == {s[i] : i \in DOMAIN s}

\* {K(x): x for x in s}: the last element with a key wins
DictBy(s, K(_)) ==
    [k \in {K(s[i]) : i \in DOMAIN s} |->
        s[CHOOSE i \in DOMAIN s :
            K(s[i]) = k /\ \A j \in DOMAIN s : K(s[j]) = k => j <= i]]

\* the keys of that dict in iteration order (the order of first insertion)
KeysBy(s, K(_)) ==
    LET first == {i \in DOMAIN s : \A j \in DOMAIN s : K(s[j]) = K(s[i]) => i <= j}
        idx == Ascending(first)
    IN [n \in DOMAIN idx |-> K(s[idx[n]])]

(***************************************************************************)
(* Source files                                                            *)
(***************************************************************************)
Files == {"app/users/models/user.py"}

\* two more monitored files, of the modules m36186 and m171947
StoreFiles == Files \cup {"app/m36186/models/user.py", "app/m171947/models/user.py"}

\* path_parts[1] of app/{module}/models/*.py
ModuleOf(path) ==
    CASE path = "app/m36186/models/user.py" -> "m36186"
      [] path = "app/m171947/models/user.py" -> "m171947"
      [] OTHER -> "users"

\* the cache file of a path: its name and the first 8 hex digits of the md5
\* of the path
GetCachePath(file_path) ==
    CASE file_path = "app/users/models/user.py" -> "user.py_2d1290d9.cache"
      [] file_path = "app/m36186/models/user.py" -> "user.py_d331c6b7.cache"
      [] file_path = "app/m171947/models/user.py" -> "user.py_d331c6b7.cache"

NoCache == [kind |-> "no_cache"]
EmptyText == [kind |-> "empty"]
BadSyntax == [kind |-> "bad_syntax"]
Unreadable == [kind |-> "unreadable"]
Source(classes) == [kind |-> "source", classes |-> classes]

ClassNames == {"User", "Account"}
TableNames == {None, "users"}
ColumnTypes == {"BIGINT", "BigInteger", "INTEGER"}
NullableKw == {"absent", "False"}
DefaultKw == {"absent", "0", "1"}

IdColumn ==
    [target |-> "id", annotated |-> TRUE, type |-> "Integer", nullable |-> "absent",
     primary_key |-> "True", default |-> "absent", foreign_key |-> None]

EmailColumns ==
    {[target |-> "email", annotated |-> TRUE, type |-> t, nullable |-> n,
      primary_key |-> "absent", default |-> d, foreign_key |-> None] :
        t \in ColumnTypes, n \in NullableKw, d \in DefaultKw}

\* a foreign key column, and a column written as a plain assignment
OwnerColumn ==
    [target |-> "owner_id", annotated |-> TRUE, type |-> "Integer", nullable |-> "absent",
     primary_key |-> "absent", default |-> "absent", foreign_key |-> "customers.id"]

\* a foreign key to a table of the file's own module
ParentColumn ==
    [target |-> "parent_id", annotated |-> TRUE, type |-> "Integer", nullable |-> "absent",
     primary_key |-> "absent", default |-> "absent", foreign_key |-> "users.id"]

PlainColumn ==
    [target |-> "email", annotated |-> FALSE, type |-> "String", nullable |-> "absent",
     primary_key |-> "absent", default |-> "absent", foreign_key |-> None]

Bodies ==
    {<<IdColumn>>, <<IdColumn, OwnerColumn>>, <<IdColumn, PlainColumn>>, <<PlainColumn>>}
        \cup {<<IdColumn, e>> : e \in EmailColumns}

BasicEmail ==
    [target |-> "email", annotated |-> TRUE, type |-> "INTEGER", nullable |-> "absent",
     primary_key |-> "absent", default |-> "absent", foreign_key |-> None]

\* class User with every body; every class name and __tablename__ with and
\* without the email column
ClassDefs ==
    {[name |-> "User", base |-> "Base", tablename |-> None, body |-> b] : b \in Bodies}
        \cup {[name |-> n, base |-> "Base", tablename |-> t, body |-> b] :
                n \in ClassNames, t \in TableNames,
                b \in {<<IdColumn>>, <<IdColumn, BasicEmail>>}}

SessionClass ==
    [name |-> "Session", base |-> "Base", tablename |-> "sessions", body |-> <<IdColumn>>]

HelperClass ==
    [name |-> "Helper", base |-> "object", tablename |-> None, body |-> <<IdColumn>>]

\* the contents a monitored file is observed with
Contents ==
    {EmptyText, BadSyntax, Source(<<HelperClass>>)}
        \cup {Source(<<c>>) : c \in ClassDefs}
        \cup {Source(<<c, SessionClass>>) : c \in {d \in ClassDefs : d.body = <<IdColumn>>}}

(***************************************************************************)
(* ModelChangeDetector: parsing                                            *)
(***************************************************************************)
CamelToSnake(name) ==
    CASE name = "User" -> "user"
      [] name = "Account" -> "account"
      [] name = "Session" -> "session"
      [] name = "Helper" -> "helper"

AppendS(snake) ==
    CASE snake = "user" -> "users"
      [] snake = "account" -> "accounts"
      [] snake = "session" -> "sessions"
      [] snake = "helper" -> "helpers"

IsSqlalchemyModel(node) == node.base \in {"Base", "DeclarativeBase"}

GetBoolValue(kw) == kw = "True"

\* an ast.Constant gives its value
ExtractDefaultValue(kw) == kw

ExtractFieldInfo(item) ==
    [name |-> item.target,
     type |-> item.type,
     nullable |-> IF item.nullable = "absent" THEN TRUE ELSE GetBoolValue(item.nullable),
     primary_key |-> IF item.primary_key = "absent" THEN FALSE
                     ELSE GetBoolValue(item.primary_key),
     unique |-> FALSE,
     foreign_key |-> item.foreign_key,
     default |-> IF item.default = "absent" THEN None ELSE ExtractDefaultValue(item.default)]

\* Only an annotated assignment (ast.AnnAssign) whose value is a Column call
\* becomes a field.  The code returns None for a class without fields; here
\* the record is returned with no fields and ParseModels drops it.
ExtractModelInfo(node) ==
    LET cols == SelectSeq(node.body, LAMBDA item : item.annotated)
    IN [class_name |-> node.name,
        table_name |-> IF node.tablename # None THEN node.tablename
                       ELSE AppendS(CamelToSnake(node.name)),
        fields |-> [i \in DOMAIN cols |-> ExtractFieldInfo(cols[i])]]

\* ast.parse raising is caught and gives []
ParseModels(content) ==
    IF content.kind # "source" THEN <<>>
    ELSE LET nodes == SelectSeq(content.classes, IsSqlalchemyModel)
             infos == [i \in DOMAIN nodes |-> ExtractModelInfo(nodes[i])]
         IN SelectSeq(infos, LAMBDA m : m.fields # <<>>)

(***************************************************************************)
(* ModelChangeDetector: diffing                                            *)
(***************************************************************************)
ClassNameOf(m) == m.class_name
FieldNameOf(f) == f.name

AnalyzeNewFile(content, module_name) ==
    LET models == ParseModels(content)
    IN IF models = <<>> THEN EmptyDict
       ELSE [module |-> module_name,
             changes |-> [i \in DOMAIN models |->
                 [type |-> "CREATE_TABLE", table |-> models[i].table_name,
                  model |-> models[i].class_name, fields |-> models[i].fields,
                  constraints |-> <<>>, indexes |-> <<>>]]]

AddColumn(table_name, field) ==
    LET change == [type |-> "ADD_COLUMN", table |-> table_name, column |-> field.name,
                   column_type |-> field.type, nullable |-> field.nullable,
                   default |-> field.default]
    IN IF ~field.nullable /\ ~Truthy(field.default)
       THEN [k \in DOMAIN change \cup {"risk", "warning"} |->
                CASE k = "risk" -> "MEDIUM"
                  [] k = "warning" -> "Adding NOT NULL column without default value"
                  [] OTHER -> change[k]]
       ELSE change

DropColumn(table_name, name) ==
    [type |-> "DROP_COLUMN", table |-> table_name, column |-> name, risk |-> "HIGH",
     warning |-> "Data will be permanently lost"]

FieldModifications(table_name, old_field, new_field) ==
    (IF old_field.type # new_field.type
     THEN <<[type |-> "ALTER_COLUMN_TYPE", table |-> table_name, column |-> old_field.name,
             old_type |-> old_field.type, new_type |-> new_field.type, risk |-> "MEDIUM",
             warning |-> "Type conversion may fail or lose precision"]>>
     ELSE <<>>)
    \o
    (IF old_field.nullable # new_field.nullable
     THEN <<[type |-> "ALTER_COLUMN_NULLABLE", table |-> table_name,
             column |-> old_field.name, nullable |-> new_field.nullable,
             risk |-> IF new_field.nullable THEN "LOW" ELSE "MEDIUM"]>>
     ELSE <<>>)

\* The loop over set(old_fields) & set(new_fields) runs in the order of the
\* set; SetToSeq fixes one such order.
CompareFields(old_model, new_model) ==
    LET table_name == old_model.table_name
        old_fields == DictBy(old_model.fields, FieldNameOf)
        new_fields == DictBy(new_model.fields, FieldNameOf)
        new_names == KeysBy(new_model.fields, FieldNameOf)
        old_names == KeysBy(old_model.fields, FieldNameOf)
        added == SelectSeq(new_names, LAMBDA n : n \notin DOMAIN old_fields)
        removed == SelectSeq(old_names, LAMBDA n : n \notin DOMAIN new_fields)
        common == SetToSeq(DOMAIN old_fields \cap DOMAIN new_fields)
    IN [i \in DOMAIN added |-> AddColumn(table_name, new_fields[added[i]])]
       \o [i \in DOMAIN removed |-> DropColumn(table_name, removed[i])]
       \o Flatten([i \in DOMAIN common |->
              FieldModifications(table_name, old_fields[common[i]], new_fields[common[i]])])

\* _compare_constraints is a stub that returns no change
CompareConstraints(old_model, new_model) == <<>>

\* Tables are matched by class_name.
CompareModels(old_content, new_content, module_name) ==
    LET old_models == ParseModels(old_content)
        new_models == ParseModels(new_content)
        old_by_name == DictBy(old_models, ClassNameOf)
        new_by_name == DictBy(new_models, ClassNameOf)
        new_names == KeysBy(new_models, ClassNameOf)
        old_names == KeysBy(old_models, ClassNameOf)
        created == SelectSeq(new_names, LAMBDA n : n \notin DOMAIN old_by_name)
        dropped == SelectSeq(old_names, LAMBDA n : n \notin DOMAIN new_by_name)
        common == SetToSeq(DOMAIN old_by_name \cap DOMAIN new_by_name)
    IN [module |-> module_name,
        changes |->
            [i \in DOMAIN created |->
                [type |-> "CREATE_TABLE", table |-> new_by_name[created[i]].table_name,
                 model |-> created[i], fields |-> new_by_name[created[i]].fields]]
            \o [i \in DOMAIN dropped |->
                [type |-> "DROP_TABLE", table |-> old_by_name[dropped[i]].table_name,
                 model |-> dropped[i], risk |-> "HIGH"]]
            \o Flatten([i \in DOMAIN common |->
                   CompareFields(old_by_name[common[i]], new_by_name[common[i]])
                   \o CompareConstraints(old_by_name[common[i]], new_by_name[common[i]])])]

\* "if not cached_content": no cache file, or a cached empty text
CacheFalsy(cached) == cached.kind \in {"no_cache", "empty"}

\* detect_changes: what it returns and what it leaves in the cache, given the
\* cached content and the content read.  read_text raising is caught by the
\* except clause: {} is returned and the cache is not written.
DetectResult(cached, content, module_name) ==
    IF content.kind = "unreadable" THEN EmptyDict
    ELSE IF CacheFalsy(cached) THEN AnalyzeNewFile(content, module_name)
    ELSE CompareModels(cached, content, module_name)

DetectCacheStale(cached, content) == cached

\* the cache file is opened for writing before the source file is read
DetectCacheEmptied(cached, content) ==
    IF content.kind = "unreadable" THEN EmptyText ELSE content

DetectCache(cached, content) ==
    IF content.kind = "unreadable" THEN cached ELSE content

(***************************************************************************)
(* DependencyDetector                                                      *)
(***************************************************************************)
\* module_tables as _scan_module_tables finds it under app/: the tables of
\* each module
ModuleTables ==
    [m \in {"users", "customers"} |->
        IF m = "users" THEN {"users", "accounts", "sessions"} ELSE {"customers"}]

\* foreign_key.split('.')[-2], for the references of the model
ReferencedTable(foreign_key) ==
    CASE foreign_key = "customers.id" -> "customers"
      [] foreign_key = "users.id" -> "users"

\* the owner of the table is taken whichever module it is
AnalyzeForeignKeyDependencyAnyOwner(foreign_key, current_module) ==
    LET table_name == ReferencedTable(foreign_key)
        owners == {m \in DOMAIN ModuleTables : table_name \in ModuleTables[m]}
    IN IF owners = {} THEN <<>>
       ELSE <<[from_module |-> current_module, to_module |-> CHOOSE m \in owners : TRUE,
               type |-> "foreign_key", table |-> table_name, reference |-> foreign_key]>>

\* a list with the edge found, or the empty list for None; the loop over
\* module_tables returns at the first other module that owns the table
AnalyzeForeignKeyDependency(foreign_key, current_module) ==
    LET table_name == ReferencedTable(foreign_key)
        owners == {m \in DOMAIN ModuleTables :
                     table_name \in ModuleTables[m] /\ m # current_module}
    IN IF owners = {} THEN <<>>
       ELSE <<[from_module |-> current_module, to_module |-> CHOOSE m \in owners : TRUE,
               type |-> "foreign_key", table |-> table_name, reference |-> foreign_key]>>

AnalyzeChangeDependencies(change, current_module) ==
    (IF "foreign_key" \in DOMAIN change /\ change.foreign_key # None
     THEN AnalyzeForeignKeyDependency(change.foreign_key, current_module)
     ELSE <<>>)
    \o
    (IF change.type \in {"CREATE_TABLE", "ADD_COLUMN"} /\ "fields" \in DOMAIN change
     THEN Flatten([i \in DOMAIN change.fields |->
              IF change.fields[i].foreign_key # None
              THEN AnalyzeForeignKeyDependency(change.fields[i].foreign_key, current_module)
              ELSE <<>>])
     ELSE <<>>)

FromModuleOf(dep) == dep.from_module

\* module -> the set of modules it depends on; every to_module is a key too
BuildDependencyGraph(dependencies) ==
    LET froms == {dependencies[i].from_module : i \in DOMAIN dependencies}
        tos == {dependencies[i].to_module : i \in DOMAIN dependencies}
    IN [m \in froms \cup tos |->
           {dependencies[i].to_module :
               i \in {j \in DOMAIN dependencies : dependencies[j].from_module = m}}]

\* the keys of that dict in insertion order: for each edge its from_module,
\* then its to_module
GraphKeys(dependencies) ==
    LET ends == Flatten([i \in DOMAIN dependencies |->
                    <<dependencies[i].from_module, dependencies[i].to_module>>])
    IN KeysBy(ends, LAMBDA m : m)

\* visit(module) of _calculate_migration_order on the state st = [visited,
\* order]; VisitEach is its loop over the dependencies (taken in the order
\* SetToSeq fixes) and the loop over the keys of the graph
RECURSIVE Visit(_, _, _)
RECURSIVE VisitEach(_, _, _)
Visit(g, module, st) ==
    IF module \in st.visited THEN st
    ELSE LET entered == [st EXCEPT !.visited = @ \cup {module}]
             deps == IF module \in DOMAIN g THEN SetToSeq(g[module]) ELSE <<>>
             after == VisitEach(g, deps, entered)
         IN [after EXCEPT !.order = Append(@, module)]

VisitEach(g, modules, st) ==
    IF modules = <<>> THEN st
    ELSE VisitEach(g, Tail(modules), Visit(g, Head(modules), st))

CalculateMigrationOrder(g, keys) ==
    VisitEach(g, keys, [visited |-> {}, order |-> <<>>]).order

\* without a change the dict is returned as initialised, with no
\* migration_order key
AnalyzeDependencies(changes) ==
    IF ~DictTruthy(changes) \/ changes.changes = <<>>
    THEN [cross_module |-> FALSE, dependencies |-> <<>>, affected_modules |-> {},
          dependency_graph |-> EmptyDict]
    ELSE LET current_module == changes.module
             deps == Flatten([i \in DOMAIN changes.changes |->
                        AnalyzeChangeDependencies(changes.changes[i], current_module)])
             g == BuildDependencyGraph(deps)
         IN [cross_module |-> deps # <<>>,
             dependencies |-> deps,
             affected_modules |-> {current_module} \cup Range([i \in DOMAIN deps |->
                                                             deps[i].to_module]),
             dependency_graph |-> g,
             migration_order |-> CalculateMigrationOrder(g, GraphKeys(deps))]

(***************************************************************************)
(* SafetyAnalyzer                                                          *)
(***************************************************************************)
RiskLevels == [LOW |-> 0, MEDIUM |-> 1, HIGH |-> 2]

\* levels.get(level, 0)
LevelOf(level) == IF level \in DOMAIN RiskLevels THEN RiskLevels[level] ELSE 0

MaxRiskLevel(level1, level2) ==
    IF LevelOf(level2) > LevelOf(level1) THEN level2 ELSE level1

\* type.upper().split('(')[0] for the type names of the model
UpperBase(type) ==
    CASE type = "BIGINT" -> "BIGINT"
      [] type = "INTEGER" -> "INTEGER"
      [] type = "Integer" -> "INTEGER"
      [] type = "BigInteger" -> "BIGINTEGER"
      [] type = "String" -> "STRING"

LossyConversions ==
    {<<"VARCHAR", "INTEGER">>, <<"TEXT", "VARCHAR">>, <<"BIGINT", "INTEGER">>,
     <<"NUMERIC", "INTEGER">>, <<"TIMESTAMP", "DATE">>, <<"DOUBLE", "FLOAT">>}

IsLossyConversion(old_type, new_type) ==
    <<UpperBase(old_type), UpperBase(new_type)>> \in LossyConversions

\* change.get('nullable', True)
GetNullable(change) == IF "nullable" \in DOMAIN change THEN change.nullable ELSE TRUE

\* change.get('default'), None when the key is absent
GetDefault(change) == IF "default" \in DOMAIN change THEN change.default ELSE None

ChangeRiskLevel(change) ==
    CASE change.type = "DROP_TABLE" -> "HIGH"
      [] change.type = "DROP_COLUMN" -> "HIGH"
      [] change.type = "ADD_COLUMN" ->
            IF ~GetNullable(change) /\ ~Truthy(GetDefault(change)) THEN "MEDIUM" ELSE "LOW"
      [] change.type = "ALTER_COLUMN_TYPE" ->
            IF IsLossyConversion(change.old_type, change.new_type) THEN "HIGH" ELSE "MEDIUM"
      [] change.type = "ALTER_COLUMN_NULLABLE" ->
            IF ~GetNullable(change) THEN "MEDIUM" ELSE "LOW"
      [] OTHER -> "LOW"

AnalyzeChangeRisk(change) == [change |-> change, risk_level |-> ChangeRiskLevel(change)]

\* the mock statistics of _estimate_data_impact
TableStats ==
    [t \in {"users", "files", "conversations", "agents", "sessions"} |->
        CASE t = "users" -> [rows |-> 10000, size_mb |-> 50]
          [] t = "files" -> [rows |-> 50000, size_mb |-> 500]
          [] t = "conversations" -> [rows |-> 25000, size_mb |-> 200]
          [] t = "agents" -> [rows |-> 100, size_mb |-> 1]
          [] t = "sessions" -> [rows |-> 100000, size_mb |-> 300]]

EstimateDataImpact(change) ==
    IF change.table \in DOMAIN TableStats
    THEN [row_count |-> TableStats[change.table].rows,
          data_size |-> TableStats[change.table].size_mb,
          has_data |-> TableStats[change.table].rows > 0]
    ELSE [row_count |-> 0, data_size |-> 0, has_data |-> FALSE]

RECURSIVE SumSeq(_)
SumSeq(s) == IF s = <<>> THEN 0 ELSE Head(s) + SumSeq(Tail(s))

Max(a, b) == IF a >= b THEN a ELSE b

\* the seconds a change adds, in units of 1/10000 s (the code adds floats
\* and truncates the sum)
ChangeDowntime(change, data_impact) ==
    LET rows == IF "table" \in DOMAIN change /\ change.table \in DOMAIN data_impact
                THEN data_impact[change.table].row_count ELSE 0
    IN CASE change.type = "CREATE_TABLE" -> 10000
         [] change.type = "DROP_TABLE" -> 20000
         [] change.type = "ADD_COLUMN" -> Max(10000, rows)
         [] change.type = "DROP_COLUMN" -> 50000
         [] change.type = "ALTER_COLUMN_TYPE" -> Max(50000, 2 * rows)
         [] change.type = "CREATE_INDEX" -> Max(100000, 10 * rows)
         [] OTHER -> 0

EstimateDowntime(changes, data_impact) ==
    SumSeq([i \in DOMAIN changes.changes |->
               ChangeDowntime(changes.changes[i], data_impact)]) \div 10000

\* the greatest row_count instead of the sum
TotalAffectedRowsGreatest(data_impact) ==
    LET rows == {data_impact[t].row_count : t \in DOMAIN data_impact}
    IN IF rows = {} THEN 0 ELSE CHOOSE r \in rows : \A q \in rows : q <= r

\* sum(impact.get('row_count', 0) for impact in report['data_impact'].values())
TotalAffectedRows(data_impact) ==
    LET tables == SetToSeq(DOMAIN data_impact)
    IN SumSeq([i \in DOMAIN tables |-> data_impact[tables[i]].row_count])

RECURSIVE FoldRisk(_, _)
FoldRisk(level, risks) ==
    IF risks = <<>> THEN level
    ELSE FoldRisk(MaxRiskLevel(level, Head(risks).risk_level), Tail(risks))

\* every analysis is kept, whatever its level
CollectRisksAll(analyses) == analyses

\* "if risk_analysis['risk_level'] != 'LOW': report['risks'].append(...)"
\* over the loop of analyze_changes
CollectRisks(analyses) == SelectSeq(analyses, LAMBDA r : r.risk_level # "LOW")

\* analyze_changes with the thresholds of the configuration
AnalyzeChanges(changes, dependencies, thresholds) ==
    IF ~DictTruthy(changes) \/ changes.changes = <<>>
    THEN [risk_level |-> "LOW", risks |-> <<>>, data_impact |-> EmptyDict,
          requires_backup |-> FALSE, requires_staging |-> FALSE, estimated_downtime |-> 0]
    ELSE LET analyses == [i \in DOMAIN changes.changes |->
                             AnalyzeChangeRisk(changes.changes[i])]
             tables == {changes.changes[i].table : i \in DOMAIN changes.changes}
             impact == [t \in tables |->
                          EstimateDataImpact(CHOOSE c \in Range(changes.changes) :
                                                c.table = t)]
             total_affected_rows == TotalAffectedRows(impact)
         IN [risk_level |-> FoldRisk("LOW", analyses),
             risks |-> CollectRisks(analyses),
             data_impact |-> impact,
             requires_backup |-> total_affected_rows > thresholds.require_backup_above_rows,
             requires_staging |->
                 total_affected_rows > thresholds.require_staged_migration_above,
             estimated_downtime |-> EstimateDowntime(changes, impact)]

(***************************************************************************)
(* MigrationGenerator                                                      *)
(***************************************************************************)
\* what _run_alembic_revision returns: success with the file generated, or
\* success False (the command failed, or its output names no file)
ToolOutcomes == {"generated", "failed"}

StageNames == <<"safe_additions", "data_migrations", "add_constraints", "dangerous_cleanup">>

\* the outcomes of the successive calls of the tool in one generation
OutcomeLists == [DOMAIN StageNames -> ToolOutcomes]

InStage(stage_name, c) ==
    CASE stage_name = "safe_additions" ->
            c.type \in {"CREATE_TABLE", "ADD_COLUMN"} /\ GetNullable(c)
      [] stage_name = "data_migrations" -> c.type \in {"ALTER_COLUMN_TYPE"}
      [] stage_name = "add_constraints" ->
            \/ (c.type = "ADD_COLUMN" /\ ~GetNullable(c))
            \/ (c.type = "ALTER_COLUMN_NULLABLE" /\ ~GetNullable(c))
      [] stage_name = "dangerous_cleanup" ->
            c.type \in {"DROP_TABLE", "DROP_COLUMN", "DROP_CONSTRAINT"}

\* the list of (stage_name, stage_changes), without the empty stages
GroupChangesForStaging(changes) ==
    LET all == [i \in DOMAIN StageNames |->
                   [stage_name |-> StageNames[i],
                    changes |-> SelectSeq(changes, LAMBDA c : InStage(StageNames[i], c))]]
    IN SelectSeq(all, LAMBDA g : g.changes # <<>>)

CountType(changes, type) == Cardinality({i \in DOMAIN changes : changes[i].type = type})

\* the parts of the description joined by '_': (part, count)
GenerateDescription(changes) ==
    LET part(type, word) ==
            IF CountType(changes.changes, type) > 0
            THEN <<[part |-> word, count |-> CountType(changes.changes, type)]>>
            ELSE <<>>
        parts == part("CREATE_TABLE", "create_tables") \o part("ADD_COLUMN", "add_columns")
                 \o part("DROP_TABLE", "drop_tables") \o part("DROP_COLUMN", "drop_columns")
                 \o (IF CountType(changes.changes, "ALTER_COLUMN_TYPE") > 0
                     THEN <<[part |-> "alter_column_types", count |-> 0]>> ELSE <<>>)
    IN IF parts # <<>> THEN parts ELSE <<[part |-> "schema_changes", count |-> 0]>>

\* the name without its timestamp
GenerateMigrationName(module, description, safety_report, staged) ==
    [module |-> module, description |-> description, staged_suffix |-> staged,
     dangerous_suffix |-> safety_report.risk_level = "HIGH"]

GenerateSingleMigration(changes, safety_report, outcomes) ==
    LET description == GenerateDescription(changes)
        name == GenerateMigrationName(changes.module, description, safety_report, FALSE)
    IN [calls |-> <<[message |-> name, outcome |-> outcomes[1]]>>,
        migrations |-> IF outcomes[1] = "generated"
                       THEN <<[filename |-> name, module |-> changes.module,
                               risk_level |-> safety_report.risk_level,
                               description |-> description]>>
                       ELSE <<>>]

\* one call of the tool for every stage, whatever the earlier calls returned
GenerateStagedMigrations(changes, safety_report, outcomes) ==
    LET staged_groups == GroupChangesForStaging(changes.changes)
        name(i) == GenerateMigrationName(changes.module,
                       <<[part |-> staged_groups[i].stage_name, count |-> i]>>,
                       safety_report, TRUE)
        made == SelectSeq([i \in DOMAIN staged_groups |-> i],
                          LAMBDA i : outcomes[i] = "generated")
    IN [calls |-> [i \in DOMAIN staged_groups |->
                      [message |-> name(i), outcome |-> outcomes[i]]],
        migrations |-> [k \in DOMAIN made |->
                           [filename |-> name(made[k]), module |-> changes.module,
                            stage |-> made[k],
                            stage_name |-> staged_groups[made[k]].stage_name,
                            risk_level |-> safety_report.risk_level]]]

\* the number of times generate calls the tool
ToolCalls(changes, safety_report) ==
    IF safety_report.requires_staging THEN Len(GroupChangesForStaging(changes.changes))
    ELSE 1

\* generate: the calls of the tool and the list of migrations returned
GenerateMigrations(changes, safety_report, outcomes) ==
    IF safety_report.requires_staging
    THEN GenerateStagedMigrations(changes, safety_report, outcomes)
    ELSE GenerateSingleMigration(changes, safety_report, outcomes)

(***************************************************************************)
(* Configuration and the decision of the hook                              *)
(***************************************************************************)
DefaultThresholds ==
    [max_affected_rows_auto |-> 1000, require_backup_above_rows |-> 10000,
     require_staged_migration_above |-> 100000]

\* the keys of DEFAULT_CONFIG the model reads
DefaultConfig ==
    [auto_generate |-> TRUE, require_review |-> TRUE, block_dangerous |-> FALSE,
     safety_thresholds |-> DefaultThresholds]

\* user configurations: any of the two flags set either way
UserConfigs ==
    UNION {[keys -> BOOLEAN] : keys \in SUBSET {"require_review", "block_dangerous"}}

\* load_config: a key of the user's file replaces the default
LoadConfig(user_config) ==
    [k \in DOMAIN DefaultConfig \cup DOMAIN user_config |->
        IF k \in DOMAIN user_config THEN user_config[k] ELSE DefaultConfig[k]]

Configs == {LoadConfig(u) : u \in UserConfigs}

\* what the user types at the prompt; EOF makes input() raise EOFError
Responses == {"y", "Y", "n", "", "EOF"}

Lower(text) == IF text = "Y" THEN "y" ELSE text

\* whether _should_generate_migration reaches input()
AsksUser(safety_report, cfg) ==
    /\ safety_report.risk_level # "LOW"
    /\ ~(cfg.block_dangerous /\ safety_report.risk_level = "HIGH")
    /\ cfg.require_review

\* _should_generate_migration: its result, or the exception input() raises
ShouldGenerateMigrationLax(safety_report, cfg, response) ==
    IF safety_report.risk_level = "LOW" THEN [proceed |-> TRUE, error |-> None]
    ELSE IF cfg.block_dangerous /\ safety_report.risk_level = "HIGH"
    THEN [proceed |-> FALSE, error |-> None]
    ELSE IF cfg.require_review
    THEN IF response = "EOF" THEN [proceed |-> FALSE, error |-> "EOFError"]
         ELSE [proceed |-> Lower(response) # "n", error |-> None]
    ELSE [proceed |-> TRUE, error |-> None]

ShouldGenerateMigration(safety_report, cfg, response) ==
    IF safety_report.risk_level = "LOW" THEN [proceed |-> TRUE, error |-> None]
    ELSE IF cfg.block_dangerous /\ safety_report.risk_level = "HIGH"
    THEN [proceed |-> FALSE, error |-> None]
    ELSE IF cfg.require_review
    THEN IF response = "EOF" THEN [proceed |-> FALSE, error |-> "EOFError"]
         ELSE [proceed |-> Lower(response) = "y", error |-> None]
    ELSE [proceed |-> TRUE, error |-> None]

\* generation goes ahead whenever the prompt raised nothing
GeneratesUnlessError(decision) == decision.error = None

\* "if self._should_generate_migration(safety_report):" in run
Generates(decision) == decision.error = None /\ decision.proceed

\* _save_report: json.dump writes the report up to dependencies and raises
\* TypeError at affected_modules, which is a set; the Markdown file that
\* follows is not written
SaveReport(dependencies) ==
    [json |-> "truncated", markdown |-> FALSE, error |-> "TypeError"]

\* the exception classes run meets: all are subclasses of Exception
ExceptionClasses == {"TypeError", "EOFError"}

\* no handler around the body of run: what is raised leaves run
RunEndsUncaught(error) ==
    IF error = None THEN [propagated |-> None] ELSE [propagated |-> error]

\* "except Exception as e:" around the whole body of run: the error is
\* logged and printed, and run returns
RunEnds(error) ==
    IF error = None \/ error \in ExceptionClasses
    THEN [propagated |-> None]
    ELSE [propagated |-> error]

\* main(): run is its last statement, so the process ends with code 0 when
\* run returns and with code 1 on an exception that was not caught
ExitCode(ended) == IF ended.propagated = None THEN 0 ELSE 1

(***************************************************************************)
(* State                                                                   *)
(***************************************************************************)
NoCall == [op |-> "none"]
GenIdle == [op |-> "none"]

InitStore ==
    /\ cache = [p \in {GetCachePath(f) : f \in StoreFiles} |-> NoCache]
    /\ last = NoCall
    /\ prev = NoCall
    /\ reports = <<>>

\* two calls of detect_changes that may overlap, none started yet
Invocations == {"first", "second"}

NotStarted == [pc |-> "idle"]

\* no call of detect_changes under way, DEFAULT_CONFIG as the module defines it
InitSide ==
    /\ invocations = [p \in Invocations |-> NotStarted]
    /\ defaults = DefaultConfig

InitDetector == InitStore /\ InitSide /\ config = DefaultConfig

InitGenerator == gen = GenIdle

InitOrder ==
    /\ graph = EmptyDict
    /\ visited = {}
    /\ order = <<>>
    /\ stack = <<>>
    /\ pending = {}
    /\ tpc = "idle"

Init == InitDetector /\ InitGenerator /\ InitOrder

(***************************************************************************)
(* ModelChangeDetector.detect_changes, called on file f when the file      *)
(* holds content c (or cannot be read)                                     *)
(***************************************************************************)
DetectChanges(f, c) ==
    /\ last' = [op |-> "detect", file |-> f, cached |-> cache[GetCachePath(f)],
                content |-> c,
                result |-> DetectResult(cache[GetCachePath(f)], c, ModuleOf(f))]
    /\ prev' = last
    /\ cache' = [cache EXCEPT ![GetCachePath(f)] = DetectCache(@, c)]
    /\ UNCHANGED <<reports, config, gen>>
    /\ UNCHANGED topoVars
    /\ UNCHANGED sideVars

NextDetect == \E f \in Files, c \in Contents \cup {Unreadable} : DetectChanges(f, c)

SpecDetect == Init /\ [][NextDetect]_vars

\* detect_changes called in turn on the files of several modules
StoreContents ==
    {Source(<<[name |-> "User", base |-> "Base", tablename |-> None, body |-> b]>>) :
        b \in {<<IdColumn>>, <<IdColumn, BasicEmail>>}}

NextStore == \E f \in StoreFiles, c \in StoreContents \cup {Unreadable} : DetectChanges(f, c)

SpecStore == Init /\ [][NextStore]_vars

(***************************************************************************)
(* Two calls of detect_changes on the same file that overlap.  Each call   *)
(* reads the file, reads the cache, and writes the cache; write_text opens *)
(* the cache file for writing, which empties it, and then writes the text. *)
(* Nothing orders the steps of one call with respect to the other's.       *)
(***************************************************************************)
RaceFile == "app/users/models/user.py"

\* the snapshot a serialized observation left before the two calls
InitRace ==
    /\ \E c \in {NoCache} \cup StoreContents :
          cache = [p \in {GetCachePath(f) : f \in StoreFiles} |->
                      IF p = GetCachePath(RaceFile) THEN c ELSE NoCache]
    /\ last = NoCall
    /\ prev = NoCall
    /\ reports = <<>>
    /\ InitSide
    /\ config = DefaultConfig
    /\ InitGenerator
    /\ InitOrder

\* what the steps of detect_changes leave alone
RaceFrame ==
    /\ UNCHANGED <<last, prev, reports, config, gen, defaults>>
    /\ UNCHANGED topoVars

\* current_content = Path(file_path).read_text(); a failure is caught and
\* {} returned
ReadFile(p, c) ==
    /\ invocations[p].pc = "idle"
    /\ invocations' = [invocations EXCEPT ![p] =
            IF c = Unreadable THEN [pc |-> "done", content |-> c, result |-> EmptyDict]
            ELSE [pc |-> "read_cache", content |-> c]]
    /\ UNCHANGED cache
    /\ RaceFrame

\* cached_content = self._get_cached_content(file_path)
ReadCache(p) ==
    /\ invocations[p].pc = "read_cache"
    /\ invocations' = [invocations EXCEPT ![p] =
            [pc |-> "open_cache", content |-> invocations[p].content,
             cached |-> cache[GetCachePath(RaceFile)]]]
    /\ UNCHANGED cache
    /\ RaceFrame

\* cache_file.write_text(content): the file is opened for writing
OpenCache(p) ==
    /\ invocations[p].pc = "open_cache"
    /\ cache' = [cache EXCEPT ![GetCachePath(RaceFile)] = EmptyText]
    /\ invocations' = [invocations EXCEPT ![p].pc = "write_cache"]
    /\ RaceFrame

\* the changes are computed against the cache as it is when the call writes
WriteCacheFresh(p) ==
    /\ invocations[p].pc = "write_cache"
    /\ cache' = [cache EXCEPT ![GetCachePath(RaceFile)] = invocations[p].content]
    /\ invocations' = [invocations EXCEPT ![p] =
            [pc |-> "done", content |-> invocations[p].content,
             cached |-> invocations[p].cached,
             result |-> DetectResult(cache[GetCachePath(RaceFile)], invocations[p].content,
                                     ModuleOf(RaceFile))]]
    /\ RaceFrame

\* the text is written and the changes are returned
WriteCache(p) ==
    /\ invocations[p].pc = "write_cache"
    /\ cache' = [cache EXCEPT ![GetCachePath(RaceFile)] =
                    DetectCache(invocations[p].cached, invocations[p].content)]
    /\ invocations' = [invocations EXCEPT ![p] =
            [pc |-> "done", content |-> invocations[p].content,
             cached |-> invocations[p].cached,
             result |-> DetectResult(invocations[p].cached, invocations[p].content,
                                     ModuleOf(RaceFile))]]
    /\ RaceFrame

NextRace ==
    \/ \E p \in Invocations, c \in StoreContents \cup {Unreadable} : ReadFile(p, c)
    \/ \E p \in Invocations : ReadCache(p)
    \/ \E p \in Invocations : OpenCache(p)
    \/ \E p \in Invocations : WriteCache(p)

SpecRace == InitRace /\ [][NextRace]_vars

(***************************************************************************)
(* MigrationGenerator.generate on a list of changes of the kinds the       *)
(* detector emits, with the report the analyzer gives for it               *)
(***************************************************************************)
MaxChanges == 3

SampleField(nullable, default) ==
    [name |-> "email", type |-> "INTEGER", nullable |-> nullable, primary_key |-> FALSE,
     unique |-> FALSE, foreign_key |-> None, default |-> default]

ChangePool ==
    Range(AnalyzeNewFile(Source(<<SessionClass>>), "users").changes)
        \cup {[type |-> "DROP_TABLE", table |-> "users", model |-> "User", risk |-> "HIGH"]}
        \cup {AddColumn("users", SampleField(n, None)) : n \in BOOLEAN}
        \cup {DropColumn("users", "email")}
        \cup {AddColumn(t, SampleField(TRUE, None)) : t \in {"files", "accounts"}}
        \cup UNION {Range(FieldModifications("users", SampleField(a, None),
                                              [SampleField(b, None) EXCEPT !.type = t])) :
                      a \in BOOLEAN, b \in BOOLEAN, t \in {"INTEGER", "BIGINT"}}

ChangeLists == UNION {[1..n -> ChangePool] : n \in 0..MaxChanges}

\* the defaults, and a user configuration that stages every migration
ThresholdPool ==
    {DefaultThresholds, [DefaultThresholds EXCEPT !.require_staged_migration_above = 0]}

\* a call of generate about to be made: the list of changes and the
\* thresholds the analyzer was configured with
InitGen ==
    /\ InitDetector
    /\ InitOrder
    /\ \E cs \in ChangeLists, th \in ThresholdPool :
          gen = [op |-> "input", changes |-> cs, thresholds |-> th]

Generate(outcomes) ==
    /\ gen.op = "input"
    /\ LET changes == [module |-> "users", changes |-> gen.changes]
           safety_report ==
               AnalyzeChanges(changes, AnalyzeDependencies(changes), gen.thresholds)
           done == GenerateMigrations(changes, safety_report, outcomes)
       IN gen' = [op |-> "generate", changes |-> gen.changes,
                  thresholds |-> gen.thresholds, safety_report |-> safety_report,
                  risk_level |-> safety_report.risk_level,
                  requires_staging |-> safety_report.requires_staging,
                  staged_groups |-> IF safety_report.requires_staging
                                    THEN GroupChangesForStaging(gen.changes) ELSE <<>>,
                  calls |-> done.calls, migrations |-> done.migrations]
    /\ UNCHANGED detectVars
    /\ UNCHANGED topoVars
    /\ UNCHANGED sideVars

NextGen == \E outcomes \in OutcomeLists : Generate(outcomes)

SpecGen == InitGen /\ [][NextGen]_vars

Count(v, s) == Cardinality({i \in DOMAIN s : s[i] = v})

\* C3: in a staged generation every change of the list is in exactly one
\* stage: as often in the stages together as in the list.
C3_StagesCoverExactly ==
    (gen.op = "generate" /\ gen.requires_staging) =>
        \A v \in Range(gen.changes) :
            SumSeq([i \in DOMAIN gen.staged_groups |-> Count(v, gen.staged_groups[i].changes)])
                = Count(v, gen.changes)

\* C6: in a staged generation a failed call of the tool is the last call:
\* no later stage is tried, and the migrations made before it are returned.
C6_FailureHaltsStages ==
    (gen.op = "generate" /\ gen.requires_staging) =>
        \A k \in DOMAIN gen.calls :
            gen.calls[k].outcome = "failed" =>
                /\ k = Len(gen.calls)
                /\ \A j \in 1..(k - 1) : \E m \in Range(gen.migrations) : m.stage = j

TouchedTables(changes) == {changes[i].table : i \in DOMAIN changes}

\* the sum, over the tables the changes touch, of the row_count the report
\* gives the table
RowsTouched(changes, safety_report) ==
    LET tables == SetToSeq(TouchedTables(changes) \cap DOMAIN safety_report.data_impact)
    IN SumSeq([i \in DOMAIN tables |-> safety_report.data_impact[tables[i]].row_count])

\* C12: requires_backup is set exactly when the rows of the tables touched
\* are together more than require_backup_above_rows, and requires_staging
\* exactly when they are more than require_staged_migration_above; with the
\* default thresholds 150000 rows set both.
C12_ThresholdsDecide ==
    gen.op = "generate" =>
        LET total == RowsTouched(gen.changes, gen.safety_report)
        IN /\ gen.safety_report.requires_backup
                <=> total > gen.thresholds.require_backup_above_rows
           /\ gen.safety_report.requires_staging
                <=> total > gen.thresholds.require_staged_migration_above
           /\ (gen.thresholds = DefaultThresholds /\ total = 150000) =>
                 (gen.safety_report.requires_backup /\ gen.safety_report.requires_staging)

C12_Witness ==
    /\ gen.op = "generate"
    /\ gen.thresholds = DefaultThresholds
    /\ TouchedTables(gen.changes) = {"files", "sessions"}
    /\ RowsTouched(gen.changes, gen.safety_report) = 150000
    /\ gen.safety_report.requires_backup
    /\ gen.safety_report.requires_staging

\* C17: data_impact has an entry for every table a change touches, and a
\* table the estimator has no statistics for has row_count 1000.
C17_DefaultRowCount ==
    gen.op = "generate" =>
        \A t \in TouchedTables(gen.changes) :
            /\ t \in DOMAIN gen.safety_report.data_impact
            /\ t \notin DOMAIN TableStats =>
                  gen.safety_report.data_impact[t].row_count = 1000

StageRank(stage_name) == CHOOSE i \in DOMAIN StageNames : StageNames[i] = stage_name

\* the kinds of change a stage is for
KindOfStage(stage_name, c) ==
    CASE stage_name = "safe_additions" ->
            c.type = "CREATE_TABLE" \/ (c.type = "ADD_COLUMN" /\ c.nullable)
      [] stage_name = "data_migrations" -> c.type = "ALTER_COLUMN_TYPE"
      [] stage_name = "add_constraints" ->
            c.type \in {"ADD_COLUMN", "ALTER_COLUMN_NULLABLE"} /\ ~c.nullable
      [] stage_name = "dangerous_cleanup" -> c.type \in {"DROP_TABLE", "DROP_COLUMN"}

\* C20: in a staged generation the stages come in the order safe additions,
\* data migrations, constraint additions, dangerous cleanup; no stage is
\* empty; each holds only its kinds of change; and the migrations returned
\* are numbered 1, 2, ... in that order, each with the name of its stage.
C20_StagesInOrder ==
    (gen.op = "generate" /\ gen.requires_staging) =>
        LET groups == gen.staged_groups
        IN /\ \A i, j \in DOMAIN groups :
                 i < j => StageRank(groups[i].stage_name) < StageRank(groups[j].stage_name)
           /\ \A i \in DOMAIN groups :
                 /\ groups[i].changes # <<>>
                 /\ \A c \in Range(groups[i].changes) : KindOfStage(groups[i].stage_name, c)
           /\ \A n \in DOMAIN gen.migrations :
                 /\ gen.migrations[n].stage = n
                 /\ gen.migrations[n].stage_name = groups[n].stage_name

(***************************************************************************)
(* MigrationGuardian.run on one hook event                                 *)
(***************************************************************************)
MaxReports == 2

Events == [tool : {"Edit", "Read"}, file_path : Files \cup {"README.md"}]

\* the tool is one that writes, the path matches monitored_paths and names
\* a module
Monitored(event) ==
    event.tool \in {"Write", "Edit", "MultiEdit"} /\ event.file_path \in Files

\* the contents observed by the runs of the hook: class User without
\* __tablename__ and defaults, alone or with class Session, class Account
\* on table users, and a text that does not parse
RunContents ==
    {c \in Contents :
        \/ c = BadSyntax
        \/ /\ c.kind = "source"
           /\ \A i \in DOMAIN c.classes :
                 \A j \in DOMAIN c.classes[i].body :
                    c.classes[i].body[j].annotated /\ c.classes[i].body[j].default = "absent"
           /\ \/ c.classes[1].name = "User" /\ c.classes[1].tablename = None
              \/ /\ c.classes[1].name = "Account" /\ c.classes[1].tablename = "users"
                 /\ c.classes = <<c.classes[1]>>
                 /\ c.classes[1].body = <<IdColumn>>}
        \cup {Source(<<[name |-> "User", base |-> "Base", tablename |-> None,
                        body |-> <<IdColumn, ParentColumn>>]>>)}

InitRun == InitStore /\ InitSide /\ InitGenerator /\ InitOrder /\ config \in Configs

Ran(event, stage) ==
    [op |-> "run", event |-> event, stage |-> stage, reports_before |-> Len(reports),
     propagated |-> RunEnds(None).propagated, exit_code |-> ExitCode(RunEnds(None))]

\* the event is not for the hook: run returns before detection
IgnoreEvent(event) ==
    /\ last' = Ran(event, "ignored")
    /\ UNCHANGED <<cache, reports>>

\* detection, analysis, decision, generation and report, for the content c
\* read from the file; response is typed only when the prompt is shown
HandleEvent(event, c) ==
    LET f == event.file_path
        changes == DetectResult(cache[GetCachePath(f)], c, ModuleOf(f))
        dependencies == AnalyzeDependencies(changes)
        safety_report == AnalyzeChanges(changes, dependencies, config.safety_thresholds)
        asked == AsksUser(safety_report, config)
        detected == [k \in DOMAIN Ran(event, "detected") \cup {"cached", "content", "changes"} |->
                        CASE k = "cached" -> cache[GetCachePath(f)]
                          [] k = "content" -> c
                          [] k = "changes" -> changes
                          [] OTHER -> Ran(event, "detected")[k]]
        Analyzed(stage, response, error, done, saved) ==
            [k \in DOMAIN detected \cup {"dependencies", "safety_report", "asked", "response",
                                         "error", "calls", "migrations", "saved"} |->
                CASE k = "stage" -> stage
                  [] k = "dependencies" -> dependencies
                  [] k = "safety_report" -> safety_report
                  [] k = "asked" -> asked
                  [] k = "response" -> response
                  [] k = "error" -> error
                  [] k = "propagated" -> RunEnds(error).propagated
                  [] k = "exit_code" -> ExitCode(RunEnds(error))
                  [] k = "calls" -> done.calls
                  [] k = "migrations" -> done.migrations
                  [] k = "saved" -> saved
                  [] OTHER -> detected[k]]
        nothing == [calls |-> <<>>, migrations |-> <<>>]
    IN /\ cache' = [cache EXCEPT ![GetCachePath(f)] = DetectCache(@, c)]
       /\ IF ~DictTruthy(changes)
          THEN /\ last' = [detected EXCEPT !.stage = "no_changes"]
               /\ UNCHANGED reports
          ELSE \E response \in IF asked THEN Responses ELSE {None} :
                 LET decision == ShouldGenerateMigration(safety_report, config, response)
                 IN IF decision.error # None
                    THEN /\ last' = Analyzed("error", response, decision.error, nothing, FALSE)
                         /\ UNCHANGED reports
                    ELSE IF ~Generates(decision)
                    THEN /\ last' = Analyzed("refused", response, None, nothing, FALSE)
                         /\ UNCHANGED reports
                    ELSE \E outcomes \in [1..ToolCalls(changes, safety_report) -> ToolOutcomes] :
                           LET done == GenerateMigrations(changes, safety_report, outcomes)
                               written == SaveReport(dependencies)
                           IN /\ last' = Analyzed("generated", response, written.error,
                                                   done, TRUE)
                              /\ reports' = Append(reports,
                                     [json |-> written.json, markdown |-> written.markdown])

RunHook(event) ==
    /\ Len(reports) < MaxReports
    /\ IF ~Monitored(event) THEN IgnoreEvent(event)
       ELSE \E c \in RunContents \cup {Unreadable} : HandleEvent(event, c)
    /\ UNCHANGED <<prev, config, gen>>
    /\ UNCHANGED topoVars
    /\ UNCHANGED sideVars

NextRun == \E event \in Events : RunHook(event)

SpecRun == InitRun /\ [][NextRun]_vars

Analyzed == last.op = "run" /\ "safety_report" \in DOMAIN last

CarriedRisk(change) == IF "risk" \in DOMAIN change THEN change.risk ELSE "LOW"

\* the highest of the risks the changes carry
MaxCarriedRisk(changes) ==
    CHOOSE level \in DOMAIN RiskLevels :
        /\ \A c \in Range(changes) : RiskLevels[CarriedRisk(c)] <= RiskLevels[level]
        /\ \/ \E c \in Range(changes) : CarriedRisk(c) = level
           \/ level = "LOW"

Declined == Analyzed /\ last.asked /\ last.response # "EOF" /\ Lower(last.response) # "y"

\* C5: after a run in which the user declined, the tool was not called, no
\* migration was made, and the cache entry of the file and the report
\* history are as they were before the run.
C5_DeclineLeavesNoTrace ==
    Declined =>
        /\ last.calls = <<>>
        /\ last.migrations = <<>>
        /\ Len(reports) = last.reports_before
        /\ cache[GetCachePath(last.event.file_path)] = last.cached

Proceeded == Analyzed /\ last.stage = "generated"

Confirmed == last.asked /\ Lower(last.response) = "y"

\* C7 as stated: LOW proceeds unasked, HIGH with block_dangerous is refused
\* unasked, and every other report proceeds only on the user's confirmation,
\* whatever the configuration.
C7_PolicyAsStated ==
    Analyzed =>
        LET level == last.safety_report.risk_level
        IN /\ level = "LOW" => (Proceeded /\ ~last.asked)
           /\ (level = "HIGH" /\ config.block_dangerous) => (~Proceeded /\ ~last.asked)
           /\ (level # "LOW" /\ ~(level = "HIGH" /\ config.block_dangerous)) =>
                 (Proceeded => Confirmed)

\* C7 amended: LOW proceeds unasked; HIGH with block_dangerous is refused
\* unasked; every other report, when require_review is set, proceeds exactly
\* when the user answers y or Y at the prompt, and when require_review is not
\* set proceeds unasked.
C7_Policy ==
    Analyzed =>
        LET level == last.safety_report.risk_level
        IN /\ level = "LOW" => (Proceeded /\ ~last.asked)
           /\ (level = "HIGH" /\ config.block_dangerous) => (~Proceeded /\ ~last.asked)
           /\ (level # "LOW" /\ ~(level = "HIGH" /\ config.block_dangerous)) =>
                 IF config.require_review
                 THEN last.asked /\ (Proceeded <=> Confirmed)
                 ELSE Proceeded /\ ~last.asked

C7_Witness ==
    /\ Analyzed
    /\ last.safety_report.risk_level = "HIGH"
    /\ ~config.block_dangerous
    /\ config.require_review
    /\ Confirmed
    /\ Proceeded
    /\ last.calls # <<>>

\* the foreign keys a change carries: those of the fields of a CREATE_TABLE,
\* and that of the declaration of the column an ADD_COLUMN adds
ForeignKeysOf(change, content) ==
    CASE change.type = "CREATE_TABLE" ->
            {f.foreign_key : f \in {g \in Range(change.fields) : g.foreign_key # None}}
      [] change.type = "ADD_COLUMN" ->
            {f.foreign_key : f \in {g \in UNION {Range(m.fields) :
                                         m \in {n \in Range(ParseModels(content)) :
                                                    n.table_name = change.table}} :
                                      g.name = change.column /\ g.foreign_key # None}}
      [] OTHER -> {}

\* the modules other than module that own the table a foreign key names
OtherOwners(foreign_key, module) ==
    {m \in DOMAIN ModuleTables :
        m # module /\ ReferencedTable(foreign_key) \in ModuleTables[m]}

EdgeRecorded(dependencies, from, to) ==
    /\ \E dep \in Range(dependencies.dependencies) :
          dep.from_module = from /\ dep.to_module = to
    /\ "migration_order" \in DOMAIN dependencies
    /\ \E i, j \in DOMAIN dependencies.migration_order :
          /\ dependencies.migration_order[i] = to
          /\ dependencies.migration_order[j] = from
          /\ i < j

\* C11: for every change detected that carries a foreign key to a table of
\* another module, the dependencies hold an edge from the changed module to
\* an owning module, and that module comes before the changed module in
\* migration_order.
C11_ForeignKeyEdge ==
    Analyzed =>
        \A ch \in Range(last.changes.changes) :
            \A fk \in ForeignKeysOf(ch, last.content) :
                OtherOwners(fk, last.changes.module) # {} =>
                    \E m \in OtherOwners(fk, last.changes.module) :
                        EdgeRecorded(last.dependencies, last.changes.module, m)

\* the names of the 64-bit and of the 32-bit integer column types
Int64Types == {"BIGINT", "BigInteger"}
Int32Types == {"INTEGER", "Integer"}

\* C13: when the changes hold an ALTER_COLUMN_TYPE from a 64-bit integer
\* type to a 32-bit integer type, the risk_level of the report is HIGH.
C13_NarrowingIsHigh ==
    Analyzed =>
        \A ch \in Range(last.changes.changes) :
            (/\ ch.type = "ALTER_COLUMN_TYPE"
             /\ ch.old_type \in Int64Types
             /\ ch.new_type \in Int32Types)
            => last.safety_report.risk_level = "HIGH"

\* C18: a run that proceeded to generation has added one report to the
\* history, with the JSON file complete and the Markdown file written.
C18_ReportsPersisted ==
    Proceeded =>
        /\ Len(reports) = last.reports_before + 1
        /\ reports[Len(reports)].json = "complete"
        /\ reports[Len(reports)].markdown

\* the decision policy approves generation for the report of the run
Approved ==
    LET level == last.safety_report.risk_level
    IN \/ level = "LOW"
       \/ /\ ~(level = "HIGH" /\ config.block_dangerous)
          /\ (config.require_review => Confirmed)

\* C23: the tool is called only in a run whose report the policy approved;
\* in a run the policy refuses the tool is not called, no migration is made
\* and no report is written.
C23_ToolOnlyAfterApproval ==
    Analyzed =>
        /\ last.calls # <<>> => Approved
        /\ ~Approved =>
              /\ last.calls = <<>>
              /\ last.migrations = <<>>
              /\ Len(reports) = last.reports_before

C23_Witness ==
    /\ Analyzed
    /\ last.safety_report.risk_level = "HIGH"
    /\ config.block_dangerous
    /\ ~Approved
    /\ last.stage = "refused"
    /\ last.calls = <<>>

(***************************************************************************)
(* DependencyDetector._calculate_migration_order, step by step, on the     *)
(* graph _build_dependency_graph makes of a list of edges.  The loops over *)
(* the dict and over each set of dependencies take their elements in any   *)
(* order.                                                                  *)
(***************************************************************************)
MaxEdges == 3

Modules == {"users", "customers", "billing"}

\* _analyze_foreign_key_dependency records an edge only between two
\* different modules
Edges == {e \in [from_module : Modules, to_module : Modules] :
             e.from_module # e.to_module}

EdgeLists ==
    {SetToSeq(es) : es \in {x \in SUBSET Edges : Cardinality(x) <= MaxEdges}}

InitCalculate ==
    /\ InitDetector
    /\ InitGenerator
    /\ \E deps \in EdgeLists : graph = BuildDependencyGraph(deps)
    /\ visited = {}
    /\ order = <<>>
    /\ stack = <<>>
    /\ pending = DOMAIN graph
    /\ tpc = "loop"

Top == stack[Len(stack)]

\* a module already visited is entered again, without its dependencies
EnterVisitAgain(module) ==
    IF module \in visited
    THEN /\ stack' = Append(stack, [module |-> module, todo |-> {}])
         /\ UNCHANGED visited
    ELSE /\ visited' = visited \cup {module}
         /\ stack' = Append(stack, [module |-> module, todo |-> graph[module]])

\* visit(module): return at once when visited, else mark it and start on
\* its dependencies
EnterVisit(module) ==
    IF module \in visited THEN UNCHANGED <<visited, stack>>
    ELSE /\ visited' = visited \cup {module}
         /\ stack' = Append(stack, [module |-> module, todo |-> graph[module]])

\* order.append(module) after the dependencies
PrependModule(ord, module) == <<module>> \o ord

AppendModule(ord, module) == Append(ord, module)

\* for module in graph: visit(module)
TakeModule ==
    /\ tpc = "loop" /\ stack = <<>>
    /\ \E m \in pending :
          /\ pending' = pending \ {m}
          /\ EnterVisit(m)
    /\ UNCHANGED <<graph, order, tpc>>
    /\ UNCHANGED <<detectVars, gen>>
    /\ UNCHANGED sideVars

\* for dep in graph.get(module, set()): visit(dep)
VisitDependency ==
    /\ tpc = "loop" /\ stack # <<>> /\ Top.todo # {}
    /\ \E dep \in Top.todo :
          IF dep \in visited
          THEN /\ stack' = [stack EXCEPT ![Len(stack)].todo = @ \ {dep}]
               /\ UNCHANGED visited
          ELSE /\ visited' = visited \cup {dep}
               /\ stack' = Append([stack EXCEPT ![Len(stack)].todo = @ \ {dep}],
                                   [module |-> dep, todo |-> graph[dep]])
    /\ UNCHANGED <<graph, order, pending, tpc>>
    /\ UNCHANGED <<detectVars, gen>>
    /\ UNCHANGED sideVars

\* the dependencies are done: append the module and return from visit
FinishVisit ==
    /\ tpc = "loop" /\ stack # <<>> /\ Top.todo = {}
    /\ order' = AppendModule(order, Top.module)
    /\ stack' = SubSeq(stack, 1, Len(stack) - 1)
    /\ UNCHANGED <<graph, visited, pending, tpc>>
    /\ UNCHANGED <<detectVars, gen>>
    /\ UNCHANGED sideVars

\* return order
ReturnOrder ==
    /\ tpc = "loop" /\ stack = <<>> /\ pending = {}
    /\ tpc' = "done"
    /\ UNCHANGED <<graph, visited, order, stack, pending>>
    /\ UNCHANGED <<detectVars, gen>>
    /\ UNCHANGED sideVars

NextCalculate == TakeModule \/ VisitDependency \/ FinishVisit \/ ReturnOrder

SpecOrder == InitCalculate /\ [][NextCalculate]_vars

\* the call runs on: a step that can be taken is taken
SpecOrderFair == SpecOrder /\ WF_vars(NextCalculate)

\* the modules reachable from the modules of S along one or more edges
RECURSIVE ReachFrom(_, _)
ReachFrom(g, S) ==
    LET next == S \cup UNION {g[m] : m \in S \cap DOMAIN g}
    IN IF next = S THEN S ELSE ReachFrom(g, next)

Acyclic(g) == \A m \in DOMAIN g : m \notin ReachFrom(g, g[m])

Position(ord, m) == CHOOSE i \in DOMAIN ord : ord[i] = m

\* C8: for an acyclic graph the order returned has, for every edge A -> B
\* (A depends on B), B before A.
C8_DependenciesFirst ==
    (tpc = "done" /\ Acyclic(graph)) =>
        \A a \in DOMAIN graph : \A b \in graph[a] :
            /\ a \in Range(order) /\ b \in Range(order)
            /\ Position(order, b) < Position(order, a)

C8_Witness ==
    /\ tpc = "done"
    /\ Acyclic(graph)
    /\ \E a \in DOMAIN graph : \E b \in graph[a] : graph[b] # {}
    /\ Len(order) = 3

\* C24: for every graph, with or without a cycle, the computation ends,
\* and the list returned holds every module of the graph once and nothing
\* else.
C24_TerminatesWithAllModules ==
    /\ <>(tpc = "done")
    /\ [](tpc = "done" =>
            /\ Range(order) = DOMAIN graph
            /\ Len(order) = Cardinality(DOMAIN graph))

C24_Witness ==
    /\ tpc = "done"
    /\ ~Acyclic(graph)
    /\ Cardinality(DOMAIN graph) = 3
    /\ Range(order) = DOMAIN graph
    /\ Len(order) = 3

\* C9: for a graph with a cycle the computation does not return an order.
C9_CycleRaises == ~Acyclic(graph) => tpc # "done"

(***************************************************************************)
(* load_config called again and again in one process, with the file        *)
(* hooks/migration_guardian_config.json absent, unparsable, or holding a   *)
(* user configuration                                                      *)
(***************************************************************************)
NoFile == [kind |-> "no_file"]
BadJson == [kind |-> "bad_json"]

\* the keys of DEFAULT_CONFIG whose value is a dict
NestedKeys == {"safety_thresholds"}

ThresholdValues == {0, 50000}

\* the dict a user file gives for safety_thresholds: some of its keys
ThresholdOverrides ==
    UNION {[keys -> ThresholdValues] :
             keys \in SUBSET {"require_backup_above_rows", "require_staged_migration_above"}}

\* user files: a flag or not, a dict for safety_thresholds or not
ConfigFiles ==
    {NoFile, BadJson}
        \cup {[kind |-> "json", data |-> u] : u \in UserConfigs}
        \cup {[kind |-> "json",
               data |-> [k \in DOMAIN u \cup {"safety_thresholds"} |->
                           IF k = "safety_thresholds" THEN th ELSE u[k]]] :
                 u \in UserConfigs, th \in ThresholdOverrides}

\* dict.update
Update(target, items) ==
    [k \in DOMAIN target \cup DOMAIN items |->
        IF k \in DOMAIN items THEN items[k] ELSE target[k]]

\* load_config on the dict DEFAULT_CONFIG is bound to: the dict returned
\* and DEFAULT_CONFIG afterwards.  config = DEFAULT_CONFIG.copy() copies
\* the top level only, so config[key].update(value) writes into the nested
\* dict DEFAULT_CONFIG holds; without a file, or when json.load raises,
\* DEFAULT_CONFIG itself is returned.
LoadConfigFrom(default_config, file) ==
    IF file.kind # "json"
    THEN [config |-> default_config, defaults |-> default_config]
    ELSE LET user_config == file.data
             merged == [k \in DOMAIN default_config |->
                          IF k \in DOMAIN user_config /\ k \in NestedKeys
                          THEN Update(default_config[k], user_config[k])
                          ELSE default_config[k]]
         IN [config |-> [k \in DOMAIN merged \cup DOMAIN user_config |->
                            IF k \in DOMAIN user_config /\ k \notin NestedKeys
                            THEN user_config[k] ELSE merged[k]],
             defaults |-> merged]

LoadConfigCall(file) ==
    /\ last' = [op |-> "load_config", file |-> file, defaults_before |-> defaults]
    /\ config' = LoadConfigFrom(defaults, file).config
    /\ defaults' = LoadConfigFrom(defaults, file).defaults
    /\ UNCHANGED <<cache, prev, reports, gen, invocations>>
    /\ UNCHANGED topoVars

NextConfig == \E file \in ConfigFiles : LoadConfigCall(file)

SpecConfig == Init /\ [][NextConfig]_vars

\* C30: whatever load_config calls were made, DEFAULT_CONFIG holds the
\* values the module defines, and a call without a file returns them.
C30_DefaultsUnchanged ==
    /\ defaults = DefaultConfig
    /\ (last.op = "load_config" /\ last.file = NoFile) => config = DefaultConfig

(***************************************************************************)
(* Properties of detect_changes                                            *)
(***************************************************************************)
NoChanges(result) == ~DictTruthy(result) \/ result.changes = <<>>

ChangesOf(result) == IF DictTruthy(result) THEN Range(result.changes) ELSE {}

TwoCalls == last.op = "detect" /\ prev.op = "detect" /\ last.file = prev.file

TablesOf(content) == {m.table_name : m \in Range(ParseModels(content))}

\* the field names some model of the content declares for table t
FieldsOf(content, t) ==
    UNION {{fld.name : fld \in Range(m.fields)} :
            m \in {x \in Range(ParseModels(content)) : x.table_name = t}}

\* C1: when detect_changes observes a file twice in a row and the content is
\* the same at both observations, the second result holds no change.
C1_Idempotent ==
    (TwoCalls /\ last.content = prev.content) => NoChanges(last.result)

C1_Witness ==
    /\ TwoCalls
    /\ last.content = prev.content
    /\ ParseModels(last.content) # <<>>
    /\ ~NoChanges(prev.result)
    /\ NoChanges(last.result)

\* C4: whenever the content observed cannot be parsed, detect_changes
\* returns a result without any change, whatever the snapshot holds.
C4_ParseFailureEmpty ==
    (last.op = "detect" /\ last.content = BadSyntax) => NoChanges(last.result)

\* C10: a field absent, then present, then absent again over three
\* observations in a row, in a table defined at all three: the second
\* observation reports ADD_COLUMN for it and the third DROP_COLUMN.
C10_AddThenDrop ==
    TwoCalls =>
        \A t \in TablesOf(prev.cached) \cap TablesOf(prev.content) \cap TablesOf(last.content) :
            \A fname \in FieldsOf(prev.content, t) :
                (/\ last.cached = prev.content
                 /\ fname \notin FieldsOf(prev.cached, t)
                 /\ fname \notin FieldsOf(last.content, t))
                => /\ \E ch \in ChangesOf(prev.result) :
                        ch.type = "ADD_COLUMN" /\ ch.table = t /\ ch.column = fname
                   /\ \E ch \in ChangesOf(last.result) :
                        ch.type = "DROP_COLUMN" /\ ch.table = t /\ ch.column = fname

\* the risk an added column should have: MEDIUM when it is not nullable and
\* declares no default (the default extracted is None only then), else LOW
ExpectedAddRisk(change) ==
    IF ~change.nullable /\ change.default = None THEN "MEDIUM" ELSE "LOW"

\* C14: every ADD_COLUMN that detect_changes emits carries MEDIUM exactly
\* when the column is not nullable and declares no default, LOW otherwise,
\* and _analyze_change_risk gives the change the same level.
C14_AddColumnRisk ==
    last.op = "detect" =>
        \A ch \in ChangesOf(last.result) :
            ch.type = "ADD_COLUMN" =>
                /\ CarriedRisk(ch) = ExpectedAddRisk(ch)
                /\ ChangeRiskLevel(ch) = ExpectedAddRisk(ch)

TablesChanged(result, type) == {ch.table : ch \in {c \in ChangesOf(result) : c.type = type}}

\* C15: on a later observation CREATE_TABLE is emitted exactly for the
\* tables the new content defines and the snapshot does not, DROP_TABLE
\* (HIGH) exactly for the tables the snapshot defines and the new content
\* does not, whatever the classes are called.
C15_DiffByTable ==
    (last.op = "detect" /\ last.cached.kind = "source" /\ last.content.kind = "source") =>
        /\ TablesChanged(last.result, "CREATE_TABLE")
              = TablesOf(last.content) \ TablesOf(last.cached)
        /\ TablesChanged(last.result, "DROP_TABLE")
              = TablesOf(last.cached) \ TablesOf(last.content)
        /\ \A ch \in ChangesOf(last.result) :
              ch.type = "DROP_TABLE" => CarriedRisk(ch) = "HIGH"

\* the classes of the content that declare a model: a declarative base and
\* at least one Column member, annotated or assigned plainly
ModelsDefined(content) ==
    IF content.kind # "source" THEN {}
    ELSE {c \in Range(content.classes) : IsSqlalchemyModel(c) /\ c.body # <<>>}

\* C16: on the first observation of a file the changes are one CREATE_TABLE
\* for each model the file defines and nothing else.
C16_FirstSightCreatesAll ==
    (last.op = "detect" /\ last.cached = NoCache /\ last.content.kind = "source") =>
        LET changes == IF DictTruthy(last.result) THEN last.result.changes ELSE <<>>
        IN /\ \A i \in DOMAIN changes : changes[i].type = "CREATE_TABLE"
           /\ \A c \in ModelsDefined(last.content) :
                 Cardinality({i \in DOMAIN changes : changes[i].model = c.name}) = 1
           /\ Len(changes) = Cardinality(ModelsDefined(last.content))

\* the entry the Snapshot Store holds for a file
Entry(f) == cache[GetCachePath(f)]

\* C19: a call of detect_changes that read file f leaves the entry of f
\* equal to the content read and the entry of every other file as it was.
C19_StoreHoldsLastContent ==
    [][\A f \in StoreFiles :
          (last'.op = "detect" /\ last'.file = f /\ last'.content # Unreadable) =>
              /\ Entry(f)' = last'.content
              /\ \A g \in StoreFiles \ {f} : Entry(g)' = Entry(g)]_vars

\* a call of detect_changes has returned after reading the cache
Returned(p) == invocations[p].pc = "done" /\ "cached" \in DOMAIN invocations[p]

\* both calls read the same snapshot, neither having seen the other's write,
\* and the same content of the file
ReadAlike(p, q) ==
    /\ Returned(p) /\ Returned(q)
    /\ invocations[p].cached = invocations[q].cached
    /\ invocations[p].cached.kind = "source"
    /\ invocations[p].content = invocations[q].content
    /\ invocations[p].content # invocations[p].cached

ReportsAdded(p, t, fname) ==
    \E ch \in ChangesOf(invocations[p].result) :
        ch.type = "ADD_COLUMN" /\ ch.table = t /\ ch.column = fname

\* C21: when two overlapping calls on the same file have both read the same
\* snapshot before either replaced it, every field the content adds to the
\* snapshot is reported as ADD_COLUMN by both.
C21_BothReportTheChange ==
    \A p, q \in Invocations :
        (p # q /\ ReadAlike(p, q)) =>
            \A t \in TablesOf(invocations[p].cached) \cap TablesOf(invocations[p].content) :
                \A fname \in FieldsOf(invocations[p].content, t)
                                \ FieldsOf(invocations[p].cached, t) :
                    ReportsAdded(p, t, fname) /\ ReportsAdded(q, t, fname)

C21_Witness ==
    /\ ReadAlike("first", "second")
    /\ ReportsAdded("first", "users", "email")
    /\ ReportsAdded("second", "users", "email")

\* C22: a run whose detection finds no change stops after detection: the
\* tool is not called and no migration is made.
C22_NoChangeNoGeneration ==
    (last.op = "run" /\ "changes" \in DOMAIN last /\ NoChanges(last.changes)) =>
        /\ last.stage = "no_changes"
        /\ "calls" \in DOMAIN last => last.calls = <<>>
        /\ "migrations" \in DOMAIN last => last.migrations = <<>>

(***************************************************************************)
(* Properties of the dependency analysis of a run                          *)
(***************************************************************************)
\* C25: the graph built from the ChangeSet of a run has no cycle: every
\* edge starts at the module of the ChangeSet and ends at another module.
C25_GraphAcyclic ==
    Analyzed =>
        LET g == last.dependencies.dependency_graph
        IN /\ Acyclic(g)
           /\ \A m \in DOMAIN g : \A d \in g[m] :
                 m = last.changes.module /\ d # m

C25_Witness ==
    /\ Analyzed
    /\ last.dependencies.dependency_graph # EmptyDict
    /\ \E m \in DOMAIN last.dependencies.dependency_graph :
          last.dependencies.dependency_graph[m] # {}

\* C26: for a ChangeSet with at least one change, migration_order lists
\* exactly the affected modules, each once, with the changed module last;
\* this includes the changed module when no other module is referenced.
C26_OrderCoversAffected ==
    (Analyzed /\ last.changes.changes # <<>>) =>
        LET ord == last.dependencies.migration_order
            affected == last.dependencies.affected_modules
        IN /\ Range(ord) = affected
           /\ Len(ord) = Cardinality(affected)
           /\ ord # <<>>
           /\ ord[Len(ord)] = last.changes.module

(***************************************************************************)
(* Properties of the way a run ends                                        *)
(***************************************************************************)
\* C27: whatever fails during a run, no exception leaves run, and the hook
\* process ends with return code 0.
C27_RunNeverPropagates ==
    last.op = "run" => last.propagated = None /\ last.exit_code = 0

C27_Witness ==
    /\ Analyzed
    /\ last.error \in ExceptionClasses
    /\ last.propagated = None
    /\ last.exit_code = 0

(***************************************************************************)
(* Properties of an observation that cannot read the file                  *)
(***************************************************************************)
\* C28: a call of detect_changes that cannot read the file returns the
\* empty result and leaves the whole store as it was; the successful call
\* on the same file that follows it is compared with the content the store
\* held before the failed call.
C28_UnreadableLeavesStore ==
    [][/\ (last'.op = "detect" /\ last'.content = Unreadable) =>
            /\ last'.result = EmptyDict
            /\ cache' = cache
       /\ (/\ last.op = "detect" /\ last.content = Unreadable
           /\ last'.op = "detect" /\ last'.content # Unreadable
           /\ last'.file = last.file) =>
            /\ last'.cached = last.cached
            /\ last'.result = DetectResult(last.cached, last'.content, ModuleOf(last.file))]_vars

C28_Witness ==
    /\ TwoCalls
    /\ prev.file = last.file
    /\ prev.content = Unreadable
    /\ prev.result = EmptyDict
    /\ prev.cached.kind = "source"
    /\ last.content.kind = "source"
    /\ last.cached = prev.cached
    /\ ~NoChanges(last.result)

(***************************************************************************)
(* Properties of the risks of a safety report                              *)
(***************************************************************************)
AboveLow(changes) == SelectSeq(changes, LAMBDA c : ChangeRiskLevel(c) # "LOW")

\* C29: the risks of a report are the analyses of the changes classified
\* above LOW, one for each in the order of the changes, and none of a LOW
\* change; the report is LOW exactly when it has no risks.
C29_RisksAreNonLowChanges ==
    gen.op = "generate" =>
        LET risks == gen.safety_report.risks
            above == AboveLow(gen.changes)
        IN /\ Len(risks) = Len(above)
           /\ \A i \in DOMAIN risks :
                 /\ risks[i].change = above[i]
                 /\ risks[i].risk_level \in {"MEDIUM", "HIGH"}
           /\ gen.safety_report.risk_level = "LOW" <=> risks = <<>>

C29_Witness ==
    /\ gen.op = "generate"
    /\ Len(gen.safety_report.risks) = 2
    /\ Len(gen.changes) = 3
    /\ \E i \in DOMAIN gen.changes : ChangeRiskLevel(gen.changes[i]) = "LOW"
    /\ gen.safety_report.risk_level # "LOW"

====
